---- MODULE Spec2Model ----
(***************************************************************************)
(* Model of EmailService (src/emailservice.js): the idempotency guard, the *)
(* email queue and its drain loop processQueue, trySendWithRetries with    *)
(* exponential backoff, switchProvider and the sliding-window rate limit.  *)
(*                                                                         *)
(* JavaScript runs one continuation at a time: code between two awaits is  *)
(* atomic, so every action below is the code from one suspension point     *)
(* (call of sendEmail, end of a sleep, settlement of a provider promise,   *)
(* resumption after `await this.trySendWithRetries`) to the next one.      *)
(* Every invocation of sendEmail that is not a duplicate starts its own    *)
(* processQueue loop (line 35); invocations are numbered 1..NumCalls in    *)
(* the order in which they are made.                                       *)
(*                                                                         *)
(* Time: the code uses Date.now() only in the difference now - timestamp   *)
(* (line 44) and in sleep durations, so a timestamp is kept as its age     *)
(* (ms elapsed since it was pushed) and a sleep as the ms still to wait.   *)
(* The clock is observed every TickMs ms.                                  *)
(***************************************************************************)
EXTENDS Integers, Sequences, FiniteSets, TLC

\* ---- bounds of the model -------------------------------------------------
NumCalls == 3
NumIds == 2
MaxProviders == 2
MaxMaxRetries == 3
MaxRateLimit == 2

\* ---- program constants -----------------------------------------------------
Window == 60000
PollInterval == 1000
BackoffBase == 100
TickMs == 30000

Calls == 1..NumCalls
Ids == 1..NumIds
NoProvider == -1
NoEntry == [emailId |-> 0, by |-> 0]

VARIABLES
    providers,            \* number of providers in this.providers
    maxRetries,           \* this.maxRetries
    rateLimit,            \* this.rateLimit
    failureRate,          \* provider index -> "never" | "sometimes" | "always"
    currentProviderIndex, \* this.currentProviderIndex
    status,               \* this.status: id -> "absent" | "success" | "failure"
    sentEmails,           \* this.sentEmails
    emailQueue,           \* this.emailQueue: sequence of entries
    lastSentTimestamps,   \* this.lastSentTimestamps, each kept as its age
    call,                 \* per invocation of sendEmail: position, locals, and the
                          \* history of its current entry (invoked, outcomes, sleeps,
                          \* and paused: the loop has slept on the rate limit)
    written,              \* history: entries whose status has been written
    writes,               \* history: number of status writes (line 63) so far
    delivered,            \* history: id -> number of provider calls that delivered it
    sentAges,             \* history: ages of all timestamps pushed, younger than Window
    lastExhausted,        \* history: provider of the last exhausting call, until the next pop
    lastOutcome           \* history: how the last settled provider call settled

cfgVars == <<providers, maxRetries, rateLimit, failureRate>>
svcVars == <<currentProviderIndex, status, sentEmails, emailQueue, lastSentTimestamps>>
histVars == <<written, writes, delivered, sentAges, lastExhausted, lastOutcome>>
vars == <<cfgVars, svcVars, call, histVars>>

Min(a, b) == IF a < b THEN a ELSE b
Max(a, b) == IF a > b THEN a ELSE b

RECURSIVE Pow2(_)
Pow2(n) == IF n = 0 THEN 1 ELSE 2 * Pow2(n - 1)

\* ---- helpers of the service ------------------------------------------------

\* the guard of line 28 left out
AlreadySentNever(id) == FALSE

\* line 28: this.sentEmails.has(emailId)
AlreadySent(id) == id \in sentEmails

\* the filter of lines 43-45 left out: nothing is ever discarded
PruneNothing(ts) == ts

\* now - timestamp <= 60000 in place of now - timestamp < 60000
PruneInclusive(ts) == SelectSeq(ts, LAMBDA age : age <= Window)

\* lines 43-45: keep the timestamps with now - timestamp < 60000
Prune(ts) == SelectSeq(ts, LAMBDA age : age < Window)

\* line 47: this.lastSentTimestamps.length >= this.rateLimit
RateLimited(ts) == Len(ts) >= rateLimit

\* attempt <= this.maxRetries in place of attempt < this.maxRetries
MoreAttemptsInclusive(attempt) == attempt <= maxRetries

\* line 69 and line 83: attempt < this.maxRetries
MoreAttempts(attempt) == attempt < maxRetries

\* the backoff computed before attempt++ instead of after it
BackoffBeforeIncrement(attempt) == Pow2(attempt - 1) * BackoffBase

\* line 84: Math.pow(2, attempt) * 100
Backoff(attempt) == Pow2(attempt) * BackoffBase

\* switchProvider leaving the index where it is
NextProviderStay(i) == i

\* line 97: (this.currentProviderIndex + 1) % this.providers.length
NextProvider(i) == (i + 1) % providers

\* lines 113-118 and 75-78: what a provider call can settle to
Outcomes(rate) ==
    CASE rate = "never"  -> {"delivered"}
      [] rate = "always" -> {"rejected", "fault"}
      [] OTHER           -> {"delivered", "rejected", "fault"}

\* the head read but not removed
ShiftKeepsHead(q) == q

\* line 53: what this.emailQueue.shift() leaves in the queue
Shift(q) == Tail(q)

\* the id marked as sent whatever the status
MarkSentAlways(sent, id, ok) == sent \cup {id}

\* lines 56-57: if (status.success) this.sentEmails.add(emailId)
MarkSent(sent, id, ok) == IF ok THEN sent \cup {id} ELSE sent

\* any response taken as a success, only a thrown fault as a failure
SettledAnyResponse(o) == IF o = "fault" THEN "failed" ELSE "delivered"

\* lines 75-80: a response without success is thrown and caught like a fault;
\* what trySendWithRetries sees of a settled call
Settled(o) == IF o = "delivered" THEN "delivered" ELSE "failed"

\* ---- initial state: after the constructor, lines 16-25 --------------------
InitCall == [pc |-> "notCalled", emailId |-> 0, ret |-> "none", entry |-> NoEntry,
             attempt |-> 0, provider |-> NoProvider, timer |-> 0, result |-> "none",
             invoked |-> << >>, outcomes |-> << >>, sleeps |-> << >>, paused |-> FALSE]

InitService ==
    /\ currentProviderIndex = 0
    /\ status = [id \in Ids |-> "absent"]
    /\ sentEmails = {}
    /\ emailQueue = << >>
    /\ lastSentTimestamps = << >>
    /\ call = [c \in Calls |-> InitCall]
    /\ written = {}
    /\ writes = 0
    /\ delivered = [id \in Ids |-> 0]
    /\ sentAges = << >>
    /\ lastExhausted = NoProvider
    /\ lastOutcome = "none"

Init ==
    /\ providers \in 1..MaxProviders
    /\ maxRetries \in 1..MaxMaxRetries
    /\ rateLimit \in 1..MaxRateLimit
    /\ failureRate = [p \in 0..(providers - 1) |-> "sometimes"]
    /\ InitService

\* ---- trySendWithRetries: head of the while loop, lines 69-74 --------------
\* cl is the value of `call` reached so far in this step.
Attempt(c, cl) ==
    IF MoreAttempts(cl[c].attempt)
    THEN call' = [cl EXCEPT ![c].pc = "awaitProvider",
                            ![c].provider = currentProviderIndex,
                            ![c].invoked = Append(@, currentProviderIndex)]
    ELSE call' = [cl EXCEPT ![c].pc = "awaitTry", ![c].result = "failure"]

\* ---- processQueue: one pass from the head of the while loop, lines 39-54 --
\* q and ts are the values of emailQueue and lastSentTimestamps reached so far.
Drain(c, cl, q, ts) ==
    IF q = << >>
    THEN /\ call' = [cl EXCEPT ![c] = [InitCall EXCEPT !.pc = "returned",
                                                     !.emailId = cl[c].emailId,
                                                     !.ret = "undefined",
                                                     !.paused = cl[c].paused]]
         /\ emailQueue' = q
         /\ lastSentTimestamps' = ts
         /\ UNCHANGED lastExhausted
    ELSE LET kept == Prune(ts) IN
         IF RateLimited(kept)
         THEN /\ call' = [cl EXCEPT ![c].pc = "sleepRateLimit", ![c].timer = PollInterval,
                                    ![c].paused = TRUE]
              /\ emailQueue' = q
              /\ lastSentTimestamps' = kept
              /\ UNCHANGED lastExhausted
         ELSE /\ emailQueue' = Shift(q)
              /\ lastSentTimestamps' = kept
              /\ Attempt(c, [cl EXCEPT ![c].entry = Head(q), ![c].attempt = 0])
              /\ lastExhausted' = IF MoreAttempts(0) THEN NoProvider ELSE lastExhausted

\* ---- sendEmail, lines 27-36 ------------------------------------------------
SendEmail(c, id) ==
    /\ call[c].pc = "notCalled"
    /\ IF c = 1 THEN TRUE ELSE call[c - 1].pc # "notCalled"
    \* ids are opaque: a new id is the least one not used so far
    /\ id <= 1 + Cardinality({call[d].emailId : d \in Calls} \ {0})
    /\ IF AlreadySent(id)
       THEN /\ call' = [call EXCEPT ![c].pc = "returned", ![c].emailId = id,
                                    ![c].ret = "duplicate"]
            /\ UNCHANGED <<svcVars, histVars>>
       ELSE /\ Drain(c, [call EXCEPT ![c].emailId = id],
                     Append(emailQueue, [emailId |-> id, by |-> c]), lastSentTimestamps)
            /\ UNCHANGED <<currentProviderIndex, status, sentEmails,
                           written, writes, delivered, sentAges, lastOutcome>>
    /\ UNCHANGED cfgVars

\* ---- the provider promise settles, lines 74-90 ---------------------------
ProviderReturns(c, o) ==
    /\ call[c].pc = "awaitProvider"
    /\ o \in Outcomes(failureRate[call[c].provider])
    /\ lastOutcome' = o
    /\ IF Settled(o) = "delivered"
       THEN /\ call' = [call EXCEPT ![c].pc = "awaitTry", ![c].result = "success",
                                    ![c].outcomes = Append(@, Settled(o))]
            /\ delivered' = [delivered EXCEPT ![call[c].entry.emailId] = @ + 1]
            /\ UNCHANGED <<currentProviderIndex, lastExhausted>>
       ELSE LET a == call[c].attempt + 1 IN
            IF MoreAttempts(a)
            THEN /\ call' = [call EXCEPT ![c].pc = "sleepBackoff", ![c].attempt = a,
                                         ![c].timer = Backoff(a),
                                         ![c].outcomes = Append(@, Settled(o)),
                                         ![c].sleeps = Append(@, Backoff(a))]
                 /\ UNCHANGED <<currentProviderIndex, lastExhausted, delivered>>
            ELSE /\ currentProviderIndex' = NextProvider(currentProviderIndex)
                 /\ lastExhausted' = call[c].provider
                 /\ call' = [call EXCEPT ![c].pc = "awaitTry", ![c].attempt = a,
                                         ![c].result = "failure",
                                         ![c].outcomes = Append(@, Settled(o))]
                 /\ UNCHANGED delivered
    /\ UNCHANGED <<cfgVars, status, sentEmails, emailQueue, lastSentTimestamps,
                   written, writes, sentAges>>

\* ---- the backoff sleep ends, line 86, back to line 69 ---------------------
WakeBackoff(c) ==
    /\ call[c].pc = "sleepBackoff"
    /\ call[c].timer = 0
    /\ Attempt(c, call)
    /\ UNCHANGED <<cfgVars, svcVars, written, writes, delivered, sentAges, lastExhausted,
                   lastOutcome>>

\* ---- the rate-limit sleep ends, lines 49-50, back to line 39 ---------------
WakeRateLimit(c) ==
    /\ call[c].pc = "sleepRateLimit"
    /\ call[c].timer = 0
    /\ Drain(c, call, emailQueue, lastSentTimestamps)
    /\ UNCHANGED <<cfgVars, currentProviderIndex, status, sentEmails,
                   written, writes, delivered, sentAges, lastOutcome>>

\* ---- processQueue resumes after trySendWithRetries, lines 54-64, then 39 --
Resume(c) ==
    /\ call[c].pc = "awaitTry"
    /\ LET e == call[c].entry
           ok == call[c].result = "success"
           ts == IF ok THEN Append(lastSentTimestamps, 0) ELSE lastSentTimestamps
       IN /\ sentEmails' = MarkSent(sentEmails, e.emailId, ok)
          /\ sentAges' = IF ok THEN Append(sentAges, 0) ELSE sentAges
          /\ status' = [status EXCEPT ![e.emailId] = call[c].result]
          /\ written' = written \cup {e.by}
          /\ writes' = writes + 1
          /\ Drain(c, [call EXCEPT ![c] = [InitCall EXCEPT !.pc = "draining",
                                                          !.emailId = call[c].emailId,
                                                          !.paused = call[c].paused]],
                   emailQueue, ts)
    /\ UNCHANGED <<cfgVars, currentProviderIndex, delivered, lastOutcome>>

\* ---- time passes: TickMs ms --------------------------------------------
Tick ==
    /\ lastSentTimestamps' = [i \in 1..Len(lastSentTimestamps) |->
                                 Min(lastSentTimestamps[i] + TickMs, Window)]
    /\ call' = [c \in Calls |-> [call[c] EXCEPT !.timer = Max(@ - TickMs, 0)]]
    /\ sentAges' = SelectSeq([i \in 1..Len(sentAges) |-> sentAges[i] + TickMs],
                             LAMBDA age : age < Window)
    /\ UNCHANGED <<cfgVars, currentProviderIndex, status, sentEmails, emailQueue,
                   written, writes, delivered, lastExhausted, lastOutcome>>

Next ==
    \/ \E c \in Calls, id \in Ids : SendEmail(c, id)
    \/ \E c \in Calls, o \in {"delivered", "rejected", "fault"} : ProviderReturns(c, o)
    \/ \E c \in Calls : WakeBackoff(c)
    \/ \E c \in Calls : WakeRateLimit(c)
    \/ \E c \in Calls : Resume(c)
    \/ Tick

Spec == Init /\ [][Next]_vars

\* Every provider promise settles, every setTimeout fires once its delay has
\* passed, every continuation that is ready is run, and time advances.
\* Making a sendEmail call is up to the caller and is not forced.
Fairness ==
    /\ WF_vars(Tick)
    /\ \A c \in Calls :
          /\ WF_vars(\E o \in {"delivered", "rejected", "fault"} : ProviderReturns(c, o))
          /\ WF_vars(WakeBackoff(c))
          /\ WF_vars(WakeRateLimit(c))
          /\ WF_vars(Resume(c))

FairSpec == Init /\ [][Next]_vars /\ Fairness

\* ---- the scenario of two providers, the first always failing (failureRate 1),
\* the second always delivering (failureRate 0), maxRetries = 2, and a caller
\* that awaits every sendEmail before making the next one --------------------
ScenarioInit ==
    /\ providers = 2
    /\ maxRetries = 2
    /\ rateLimit \in 1..MaxRateLimit
    /\ failureRate = [p \in 0..1 |-> IF p = 0 THEN "always" ELSE "never"]
    /\ InitService

AwaitedSendEmail(c, id) ==
    /\ \A d \in Calls : call[d].pc \in {"notCalled", "returned"}
    /\ SendEmail(c, id)

ScenarioNext ==
    \/ \E c \in Calls, id \in Ids : AwaitedSendEmail(c, id)
    \/ \E c \in Calls, o \in {"delivered", "rejected", "fault"} : ProviderReturns(c, o)
    \/ \E c \in Calls : WakeBackoff(c)
    \/ \E c \in Calls : WakeRateLimit(c)
    \/ \E c \in Calls : Resume(c)
    \/ Tick

ScenarioSpec == ScenarioInit /\ [][ScenarioNext]_vars

\* ---- vocabulary of the properties -----------------------------------------

\* invocation a of sendEmail pushed an entry (it was not answered as a duplicate)
Pushed(a) == call[a].pc # "notCalled" /\ call[a].ret # "duplicate"

\* invocation c of sendEmail is made in this step
Invoked(c) == call[c].pc = "notCalled" /\ call'[c].pc # "notCalled"

\* the drain loop of c pops an entry and makes the entry's first provider call in this step
FirstCall(c) ==
    /\ call[c].pc \in {"notCalled", "sleepRateLimit", "awaitTry"}
    /\ call'[c].pc = "awaitProvider"

\* the drain loop of c holds an entry it has popped and not yet recorded
InFlight(c) == call[c].entry # NoEntry

\* the drain loop of c is running (started and not returned)
Active(c) == call[c].pc \in {"sleepRateLimit", "awaitProvider", "sleepBackoff", "awaitTry"}

Failures(out) == Len(SelectSeq(out, LAMBDA o : o = "failed"))

\* the drain loop of c finds the rate limit reached in this step and starts the
\* sleep of line 49 (on its first pass or on a recheck after a sleep)
RateLimitedIteration(c) ==
    /\ call'[c].pc = "sleepRateLimit"
    /\ call'[c].timer = PollInterval
    /\ call[c].pc # "sleepRateLimit" \/ call[c].timer = 0

\* the entry of c exhausts its retries in this step (lines 87-93)
Exhausts(c) ==
    /\ call[c].pc = "awaitProvider"
    /\ call'[c].pc = "awaitTry"
    /\ call'[c].result = "failure"

\* the drain loop of c records the status of its entry in this step (line 63)
Writes(c) == call[c].pc = "awaitTry" /\ call'[c].pc # "awaitTry"

\* ---- C1 ----------------------------------------------------------------
\* C1: a sendEmail(id) made when id is already in sentEmails (an earlier call for
\* id resolved to success) returns the duplicate-prevented result at once, pushes
\* nothing and invokes no provider.
C1_Idempotency ==
    [][\A c \in Calls :
          (Invoked(c) /\ call'[c].emailId \in sentEmails)
          => /\ call'[c].pc = "returned"
             /\ call'[c].ret = "duplicate"
             /\ emailQueue' = emailQueue
             /\ \A d \in Calls : call'[d].invoked = call[d].invoked]_vars

C1_Witness ==
    \E c \in Calls : /\ call[c].ret = "duplicate"
                     /\ call[c].emailId \in sentEmails
                     /\ status[call[c].emailId] = "success"

\* ---- C2 ----------------------------------------------------------------
\* C2: for every id, at most one provider call for that id ever returns success.
C2_AtMostOneDelivery == \A id \in Ids : delivered[id] <= 1

\* ---- C3 ----------------------------------------------------------------
\* C3: for the entry a drain loop holds, at most maxRetries provider calls are
\* made; failure is returned only after exactly maxRetries failed calls; success
\* is returned right after the first delivered call, and no call follows it.
C3_RetryBound ==
    \A c \in Calls :
        LET inv == call[c].invoked
            out == call[c].outcomes
        IN /\ Len(inv) <= maxRetries
           /\ Len(out) <= Len(inv)
           /\ \A i \in 1..Len(out) : out[i] = "delivered" => i = Len(inv)
           /\ call[c].result = "failure"
                 => /\ Len(inv) = maxRetries
                    /\ Len(out) = maxRetries
                    /\ \A i \in 1..Len(out) : out[i] = "failed"
           /\ call[c].result = "success"
                 => /\ Len(out) = Len(inv)
                    /\ out[Len(out)] = "delivered"
                    /\ \A i \in 1..(Len(out) - 1) : out[i] = "failed"

C3_Witness ==
    /\ maxRetries = 3
    /\ \E c, d \in Calls : /\ call[c].result = "failure"
                            /\ Len(call[c].invoked) = 3
                            /\ call[d].result = "success"
                            /\ Len(call[d].invoked) = 2

\* ---- C4 ----------------------------------------------------------------
\* C4: after a message exhausts its retries against provider j, the next message
\* processed makes its first provider call to (j+1) mod N, and not to j unless N = 1.
C4_FailoverAfterExhaustion ==
    [][\A c \in Calls :
          (FirstCall(c) /\ lastExhausted # NoProvider)
          => /\ call'[c].provider = (lastExhausted + 1) % providers
             /\ providers > 1 => call'[c].provider # lastExhausted]_vars

\* ---- C5 ----------------------------------------------------------------
\* C5: the timestamps pushed to lastSentTimestamps that lie within the trailing
\* 60000 ms never number more than rateLimit.
C5_RateLimit == Len(sentAges) <= rateLimit

\* ---- C6 ----------------------------------------------------------------
\* C6: if A was pushed before B, A's status is written no later than B's: when
\* B's status has been written, so has A's.
C6_Fifo ==
    \A a, b \in Calls : (a < b /\ Pushed(a) /\ b \in written) => a \in written

\* ---- C7 ----------------------------------------------------------------
\* C7: at most one drain loop is active, and never two entries are popped
\* and not yet recorded.
C7_SingleConsumer ==
    /\ Cardinality({c \in Calls : Active(c)}) <= 1
    /\ Cardinality({c \in Calls : InFlight(c)}) <= 1

\* ---- C8 ----------------------------------------------------------------
\* C8: when a non-duplicate sendEmail returns, emailQueue is empty, every entry
\* pushed so far (its own included) has its status written and none is in flight.
C8_ReturnsAfterDrain ==
    [][\A c \in Calls :
          (call[c].pc # "returned" /\ call'[c].pc = "returned"
             /\ call'[c].ret = "undefined")
          => /\ emailQueue' = << >>
             /\ \A a \in Calls : Pushed(a)' => a \in written'
             /\ \A d \in Calls : ~InFlight(d)']_vars

\* ---- C9 ----------------------------------------------------------------
\* C9: the i-th failed attempt of an entry, i < maxRetries, is followed by a sleep
\* of exactly 2^i * 100 ms (strictly increasing in i); the maxRetries-th failed
\* attempt is followed by no sleep.
C9_Backoff ==
    \A c \in Calls :
        LET sl == call[c].sleeps
            failed == Failures(call[c].outcomes)
        IN /\ Len(sl) = Min(failed, maxRetries - 1)
           /\ \A i \in 1..Len(sl) : sl[i] = (2 ^ i) * 100
           /\ \A i, j \in 1..Len(sl) : i < j => sl[i] < sl[j]
           /\ call[c].pc = "sleepBackoff" => call[c].timer \in {0, sl[Len(sl)]}
           /\ call[c].result = "failure" => call[c].timer = 0 /\ failed = maxRetries

C9_Witness ==
    \E c \in Calls : /\ call[c].sleeps = <<200, 400>>
                     /\ call[c].result = "failure"

\* ---- C10 ---------------------------------------------------------------
\* C10: every entry pushed onto emailQueue is eventually popped and gets its
\* status written (success or failure).
C10_EventualResolution ==
    \A a \in Calls : Pushed(a) ~> (a \in written)

\* an entry that waited behind the rate limit, and an entry processed after a
\* failed one, both resolved
C10_Witness ==
    /\ \A a \in Calls : Pushed(a) /\ a \in written
    /\ \E id \in Ids : status[id] = "failure"
    /\ \E id \in Ids : status[id] = "success"
    /\ \E c \in Calls : call[c].pc = "returned" /\ call[c].paused

C12_FinalAfterSuccess ==
    [][\A c \in Calls :
          Writes(c) => ~(/\ status[call[c].entry.emailId] = "success"
                         /\ call[c].entry.emailId \in sentEmails)]_vars

\* ---- C13 ---------------------------------------------------------------
\* C13: a sendEmail made when its id is in sentEmails leaves the status table,
\* emailQueue, lastSentTimestamps, sentEmails and currentProviderIndex unchanged
\* and starts no drain loop; the drain loops of other calls are not touched.
C13_DuplicateNoOp ==
    [][\A c \in Calls :
          (Invoked(c) /\ call'[c].emailId \in sentEmails)
          => /\ status' = status
             /\ emailQueue' = emailQueue
             /\ lastSentTimestamps' = lastSentTimestamps
             /\ sentEmails' = sentEmails
             /\ currentProviderIndex' = currentProviderIndex
             /\ ~Active(c)' /\ ~InFlight(c)'
             /\ \A d \in Calls \ {c} : call'[d] = call[d]]_vars

\* a duplicate was answered while another call's loop waits with a queued entry
C13_Witness ==
    \E c, d \in Calls : /\ call[c].ret = "duplicate"
                        /\ Active(d)
                        /\ emailQueue # << >>

\* ---- C14 ---------------------------------------------------------------
\* C14: in the scenario, the first call (m1, id 1) gets exactly 2 provider calls,
\* both to provider 0, and status failure; currentProviderIndex then is 1; a
\* second call for m2 (id 2) gets exactly 1 provider call, to provider 1, and
\* status success.
C14_Scenario2 ==
    /\ call[1].pc \in {"awaitProvider", "sleepBackoff"}
          => /\ \A i \in 1..Len(call[1].invoked) : call[1].invoked[i] = 0
             /\ currentProviderIndex = 0
    /\ call[1].pc = "awaitTry"
          => /\ call[1].invoked = <<0, 0>>
             /\ call[1].outcomes = <<"failed", "failed">>
             /\ call[1].result = "failure"
             /\ currentProviderIndex = 1
    /\ (call[1].pc = "returned" /\ call[2].pc = "notCalled")
          => /\ status[1] = "failure"
             /\ currentProviderIndex = 1
    /\ call[2].emailId = 2
          => /\ call[2].pc \in {"awaitProvider", "awaitTry", "returned"}
             /\ call[2].pc = "awaitProvider" => call[2].invoked = <<1>>
             /\ call[2].pc = "awaitTry"
                   => /\ call[2].invoked = <<1>>
                      /\ call[2].outcomes = <<"delivered">>
                      /\ call[2].result = "success"
             /\ (call[2].pc = "returned" /\ call[3].pc = "notCalled")
                   => /\ status[2] = "success"
                      /\ status[1] = "failure"
                      /\ delivered[2] = 1
                      /\ currentProviderIndex = 1

C14_Witness ==
    /\ call[1].pc = "returned" /\ call[1].emailId = 1
    /\ call[2].pc = "returned" /\ call[2].emailId = 2
    /\ status[1] = "failure" /\ status[2] = "success"
    /\ delivered[1] = 0 /\ delivered[2] = 1
    /\ currentProviderIndex = 1

\* ---- C15 ---------------------------------------------------------------
\* C15: all provider calls made for one queue entry go to the same provider.
C15_OneProviderPerMessage ==
    \A c \in Calls :
        \A i, j \in 1..Len(call[c].invoked) : call[c].invoked[i] = call[c].invoked[j]

\* ---- C16 ---------------------------------------------------------------
\* C16: a provider call that throws and one that returns without success have
\* the same effect: the step is the same function of the state before it (one
\* more attempt, the same backoff sleep or the same exhaustion with its provider
\* switch, nothing sent, nothing recorded), so exchanging one for the other
\* anywhere changes only which of the two happened.
C16_FaultEqualsRejection ==
    [][\A c \in Calls :
          (/\ call[c].pc = "awaitProvider"
           /\ call'[c].pc # "awaitProvider"
           /\ lastOutcome' \in {"rejected", "fault"})
          => LET a == call[c].attempt + 1 IN
             /\ call'[c].attempt = a
             /\ call'[c].invoked = call[c].invoked
             /\ call'[c].outcomes = Append(call[c].outcomes, "failed")
             /\ call'[c].entry = call[c].entry
             /\ sentEmails' = sentEmails
             /\ lastSentTimestamps' = lastSentTimestamps
             /\ status' = status
             /\ delivered' = delivered
             /\ emailQueue' = emailQueue
             /\ IF a < maxRetries
                THEN /\ call'[c].pc = "sleepBackoff"
                     /\ call'[c].timer = (2 ^ a) * 100
                     /\ call'[c].sleeps = Append(call[c].sleeps, (2 ^ a) * 100)
                     /\ call'[c].result = "none"
                     /\ currentProviderIndex' = currentProviderIndex
                ELSE /\ call'[c].pc = "awaitTry"
                     /\ call'[c].result = "failure"
                     /\ call'[c].sleeps = call[c].sleeps
                     /\ currentProviderIndex' = (currentProviderIndex + 1) % providers]_vars

\* a call that returned without success has just been handled as a failed
\* attempt, after an earlier failed attempt of the same entry
C16_Witness ==
    /\ lastOutcome = "rejected"
    /\ \E c \in Calls : /\ call[c].outcomes = <<"failed", "failed">>
                         /\ call[c].pc \in {"sleepBackoff", "awaitTry"}

\* ---- C17 ---------------------------------------------------------------
\* C17: a drain loop iteration that finds rateLimit or more timestamps younger
\* than 60000 ms pops nothing and calls no provider; it keeps exactly those
\* timestamps, leaves currentProviderIndex and the other loops alone and sleeps
\* 1000 ms.  On a recheck after the sleep emailQueue, status and sentEmails are
\* unchanged; on the first pass of a sendEmail the queue only gains that call's
\* entry at its end; after a status write the queue is unchanged.
C17_RateLimitedFrame ==
    [][\A c \in Calls :
          RateLimitedIteration(c)
          => /\ call'[c].entry = NoEntry
             /\ call'[c].invoked = << >>
             /\ call'[c].timer = 1000
             /\ \A d \in Calls \ {c} : call'[d] = call[d]
             /\ currentProviderIndex' = currentProviderIndex
             /\ delivered' = delivered
             /\ Len(lastSentTimestamps') >= rateLimit
             /\ \A i \in 1..Len(lastSentTimestamps') : lastSentTimestamps'[i] < 60000
             /\ emailQueue' # << >>
             /\ CASE call[c].pc = "sleepRateLimit" ->
                       /\ emailQueue' = emailQueue
                       /\ status' = status
                       /\ sentEmails' = sentEmails
                       /\ lastSentTimestamps' =
                             SelectSeq(lastSentTimestamps, LAMBDA age : age < 60000)
                  [] call[c].pc = "notCalled" ->
                       /\ emailQueue' = Append(emailQueue,
                                               [emailId |-> call'[c].emailId, by |-> c])
                       /\ status' = status
                       /\ sentEmails' = sentEmails
                  [] OTHER ->
                       emailQueue' = emailQueue]_vars

\* a loop is back asleep on the rate limit after a recheck: a tick has aged the
\* timestamps, the head entry and the one behind it are still queued
C17_Witness ==
    \E c \in Calls :
        /\ call[c].pc = "sleepRateLimit"
        /\ call[c].timer = PollInterval
        /\ Len(emailQueue) >= 2
        /\ lastSentTimestamps # << >>
        /\ \A i \in 1..Len(lastSentTimestamps) : lastSentTimestamps[i] >= TickMs
        /\ \A d \in Calls : call[d].pc # "notCalled" /\ ~InFlight(d)

\* ---- C18 ---------------------------------------------------------------
\* C18: currentProviderIndex is always in 0..N-1; a step in which an entry
\* exhausts its retries moves it by one (+1 mod N), and every other step
\* (sendEmail, rate-limit pause, failed attempt followed by a retry, delivery,
\* status write, passing of time) leaves it unchanged.
C18_ProviderCursor ==
    /\ [](currentProviderIndex \in 0..(providers - 1))
    /\ [][IF \E c \in Calls : Exhausts(c)
          THEN currentProviderIndex' = (currentProviderIndex + 1) % providers
          ELSE currentProviderIndex' = currentProviderIndex]_vars

\* the index has wrapped around: the last exhaustion was against the last of
\* two providers and the index is back at 0
C18_Witness ==
    /\ providers = 2
    /\ lastExhausted = 1
    /\ currentProviderIndex = 0

\* ---- C19 ---------------------------------------------------------------
\* C19: every id in sentEmails has a status entry that is success.
C19_GuardAgreesWithStatus == \A id \in sentEmails : status[id] = "success"

\* ---- C20 ---------------------------------------------------------------
\* C20: every pushed entry is in exactly one place: still queued (once), popped
\* and held by exactly one drain loop, or recorded; every recorded entry was
\* written exactly once (the number of status writes is the number of recorded
\* entries); so when the queue is empty and no drain loop is active, the number
\* of status writes equals the number of accepted non-duplicate sendEmail calls.
Places(a) ==
    Cardinality({i \in 1..Len(emailQueue) : emailQueue[i].by = a})
    + Cardinality({c \in Calls : call[c].entry.by = a})
    + (IF a \in written THEN 1 ELSE 0)

C20_NoLossNoDouble ==
    /\ \A a \in Calls : Places(a) = (IF Pushed(a) THEN 1 ELSE 0)
    /\ writes = Cardinality(written)
    /\ (emailQueue = << >> /\ \A c \in Calls : ~Active(c))
          => writes = Cardinality({a \in Calls : Pushed(a)})

\* quiescent after three accepted calls, two of them for the same id
C20_Witness ==
    /\ emailQueue = << >>
    /\ \A c \in Calls : call[c].pc = "returned" /\ call[c].ret = "undefined"
    /\ writes = NumCalls
    /\ \E c, d \in Calls : c # d /\ call[c].emailId = call[d].emailId
====
